---- MODULE Spec2Model ----
(***************************************************************************)
(* Model of photo.go: the in-memory image registry of ImageManager (Save,  *)
(* Find, Update, All), the caller-held Image instances it aliases or       *)
(* copies, and the sqlite "votes" table behind InsertPuppies and           *)
(* FindOldPuppies.                                                         *)
(*                                                                         *)
(* Go strings are sequences of one-character tokens; *Image pointers are   *)
(* addresses into a heap; log.Fatal and a nil-pointer panic end the        *)
(* process (crashed).                                                      *)
(***************************************************************************)
EXTENDS Integers, Sequences, FiniteSets, TLC

\* ------------------------------------------------------------------ bounds
MaxHeld == 1          \* images the caller builds and holds on to
MaxVotes == 1         \* magnitude a vote counter may reach
MaxRows == 2          \* rows the votes table may hold, and images to flush

\* The photo ids of the modelled runs: two plain decimal ids, a decimal id
\* with a leading zero and an id that is not a number.
PhotoIDs == { <<"1">>, <<"2">>, <<"0", "1">>, <<"a">> }

\* the nil *Image
NilAddr == 0

\* ----------------------------------------------------------------- strings
Digits == <<"0", "1", "2", "3", "4", "5", "6", "7", "8", "9">>

IsDigit(c) == \E i \in 1..10 : Digits[i] = c

DigitVal(c) == (CHOOSE i \in 1..10 : Digits[i] = c) - 1

\* value of a string of decimal digits
RECURSIVE DecimalValue(_)
DecimalValue(s) == IF s = <<>> THEN 0
                   ELSE 10 * DecimalValue(SubSeq(s, 1, Len(s) - 1))
                        + DigitVal(s[Len(s)])

IsDecimal(s) == s /= <<>> /\ \A i \in 1..Len(s) : IsDigit(s[i])

\* strings.Repeat(s, n), n >= 0
RECURSIVE Repeat(_, _)
Repeat(s, n) == IF n = 0 THEN <<>> ELSE s \o Repeat(s, n - 1)

\* strings.Split(s, ""): one string per character
SplitChars(s) == [i \in 1..Len(s) |-> << s[i] >>]

\* strings.Join(parts, sep)
RECURSIVE Join(_, _)
Join(parts, sep) == IF parts = <<>> THEN <<>>
                    ELSE IF Len(parts) = 1 THEN parts[1]
                    ELSE parts[1] \o sep \o Join(Tail(parts), sep)


\* ------------------------------------------------------------------ photos
SizeSmallSquare == <<"s">>
SizeThumbnail == <<"t">>
SizeSmall == <<"m">>
SizeMedium500 == <<"-">>
SizeMedium640 == <<"z">>
SizeLarge == <<"b">>
SizeOriginal == <<"o">>

\* the size codes URL is called with: the seven of the package and a code
\* that is none of them
Sizes == { SizeSmallSquare, SizeThumbnail, SizeSmall, SizeMedium500,
           SizeMedium640, SizeLarge, SizeOriginal, <<"x", "l">> }

\* The Photo record the search response carries for an id.
PhotoOf(id) == [ID |-> id, Secret |-> <<"s">>, Server |-> <<"7">>,
                Farm |-> <<"3">>, Title |-> <<"p">> \o id]

Photos == { PhotoOf(id) : id \in PhotoIDs }

\* the ids of the runs that stay in memory, where only equality of ids counts
RegistryPhotoIDs == { <<"1">>, <<"2">> }

RegistryPhotos == { PhotoOf(id) : id \in RegistryPhotoIDs }

\* Photo.URL with the size segment written for every size
URLWithSize(p, size) ==
    <<"http://farm">> \o p.Farm \o <<".static.flickr.com/">> \o p.Server
    \o <<"/">> \o p.ID \o <<"_">> \o p.Secret \o <<"_">> \o size \o <<".jpg">>

\* Photo.URL
URL(p, size) ==
    IF size = <<"-">>
    THEN <<"http://farm">> \o p.Farm \o <<".static.flickr.com/">> \o p.Server
         \o <<"/">> \o p.ID \o <<"_">> \o p.Secret \o <<".jpg">>
    ELSE <<"http://farm">> \o p.Farm \o <<".static.flickr.com/">> \o p.Server
         \o <<"/">> \o p.ID \o <<"_">> \o p.Secret \o <<"_">> \o size
         \o <<".jpg">>

\* the Image that NewImage builds
ImageOf(photo) == [ID |-> photo.ID, Title |-> photo.Title,
                   Thumbnail |-> URL(photo, SizeThumbnail),
                   Large |-> URL(photo, SizeLarge),
                   UpVotes |-> 0, DownVotes |-> 0]

\* ------------------------------------------------------------------- state
VARIABLES
    heap,        \* the Image objects of the process, by address 1..Len(heap)
    images,      \* m.images: the addresses of the registry's entries, in order
    held,        \* the addresses NewImage returned to the caller
    db,          \* m.db: "nil" or "open"
    tableExists, \* the database file holds the table votes
    votes,       \* the committed rows of votes, in rowid order
    crashed,     \* the process has ended in log.Fatal or a panic
    last,        \* the last call and what it returned
    calls        \* the Update call each goroutine is in, and where

vars == <<heap, images, held, db, tableExists, votes, crashed, last,
         calls>>

Allocated == 1..Len(heap)

\* the addresses of the registry's entries
Entries == { images[i] : i \in 1..Len(images) }

NoCall == [op |-> "none", img |-> NilAddr, found |-> FALSE,
           up |-> 0, down |-> 0, n |-> 0, list |-> <<>>, rows |-> <<>>,
           resp |-> <<>>, url |-> <<>>, photo |-> <<>>]

\* the registry as values: what All() shows, entry by entry
Registry == [i \in 1..Len(images) |-> heap[images[i]]]

RegistryIds == { heap[images[i]].ID : i \in 1..Len(images) }

\* the goroutines that serve votes at the same time
Goroutines == { 1, 2 }

\* a goroutine that is in no call of Update
Idle == [pc |-> "idle", image |-> NilAddr, upOrDown |-> FALSE, reg |-> 0]

\* NewImageManager: a fresh process
Init ==
    /\ heap = <<>>
    /\ images = <<>>
    /\ held = {}
    /\ db = "nil"
    /\ tableExists = FALSE
    /\ votes = <<>>
    /\ crashed = FALSE
    /\ last = NoCall
    /\ calls = [g \in Goroutines |-> Idle]

\* ---------------------------------------------------------------- registry
\* the caller turns a photo of the search response into an Image
NewImage(photo) ==
    /\ ~crashed
    /\ Cardinality(held) < MaxHeld
    /\ heap' = Append(heap, ImageOf(photo))
    /\ held' = held \cup { Len(heap) + 1 }
    /\ last' = [NoCall EXCEPT !.op = "NewImage"]
    /\ UNCHANGED <<images, db, tableExists, votes, crashed, calls>>

\* cloneImage: a new object with the fields of heap[a]; its address is
\* Len(heap) + 1
cloneImage(h, a) == Append(h, h[a])

\* the loop of Save and of Find: the first entry with the id, or 0
FirstWithId(id) ==
    IF \E i \in 1..Len(images) : heap[images[i]].ID = id
    THEN LET i == CHOOSE i \in 1..Len(images) :
                      /\ heap[images[i]].ID = id
                      /\ \A j \in 1..(i - 1) : heap[images[j]].ID /= id
         IN images[i]
    ELSE NilAddr

\* Save with the duplicate's counts written over the stored entry's
SaveOverwrites(a) ==
    /\ ~crashed
    /\ a \in Allocated
    /\ IF FirstWithId(heap[a].ID) /= NilAddr
       THEN /\ heap' = [heap EXCEPT ![FirstWithId(heap[a].ID)] = heap[a]]
            /\ UNCHANGED images
       ELSE /\ heap' = cloneImage(heap, a)
            /\ images' = Append(images, Len(heap) + 1)
    /\ last' = [NoCall EXCEPT !.op = "Save", !.img = a,
                              !.found = (FirstWithId(heap[a].ID) /= NilAddr)]
    /\ UNCHANGED <<held, db, tableExists, votes, crashed, calls>>

\* Save with the passed pointer itself appended, and no clone made
SaveKeepsPointer(a) ==
    /\ ~crashed
    /\ a \in Allocated
    /\ IF FirstWithId(heap[a].ID) /= NilAddr
       THEN UNCHANGED images
       ELSE images' = Append(images, a)
    /\ last' = [NoCall EXCEPT !.op = "Save", !.img = a,
                              !.found = (FirstWithId(heap[a].ID) /= NilAddr)]
    /\ UNCHANGED <<heap, held, db, tableExists, votes, crashed, calls>>

\* Save with the clone put in front of the entries
SavePrepends(a) ==
    /\ ~crashed
    /\ a \in Allocated
    /\ IF FirstWithId(heap[a].ID) /= NilAddr
       THEN UNCHANGED <<heap, images>>
       ELSE /\ heap' = cloneImage(heap, a)
            /\ images' = <<Len(heap) + 1>> \o images
    /\ last' = [NoCall EXCEPT !.op = "Save", !.img = a,
                              !.found = (FirstWithId(heap[a].ID) /= NilAddr)]
    /\ UNCHANGED <<held, db, tableExists, votes, crashed, calls>>

Save(a) ==
    /\ ~crashed
    /\ a \in Allocated
    /\ IF FirstWithId(heap[a].ID) /= NilAddr
       THEN UNCHANGED <<heap, images>>
       ELSE /\ heap' = cloneImage(heap, a)
            /\ images' = Append(images, Len(heap) + 1)
    /\ last' = [NoCall EXCEPT !.op = "Save", !.img = a,
                              !.found = (FirstWithId(heap[a].ID) /= NilAddr)]
    /\ UNCHANGED <<held, db, tableExists, votes, crashed, calls>>

\* SaveNew on a registry that keeps its newest entry only
SaveNewEvicts(photo) ==
    /\ ~crashed
    /\ IF FirstWithId(photo.ID) /= NilAddr
       THEN UNCHANGED <<heap, images>>
       ELSE /\ Len(images) < MaxRows
            /\ heap' = Append(heap, cloneImage(<<ImageOf(photo)>>, 1)[2])
            /\ images' = <<Len(heap) + 1>>
    /\ last' = [NoCall EXCEPT !.op = "Save",
                              !.found = (FirstWithId(photo.ID) /= NilAddr)]
    /\ UNCHANGED <<held, db, tableExists, votes, crashed, calls>>

\* m.Save(m.NewImage(photo)) for a photo of the response: the caller keeps
\* no reference to the image it built, so the heap gains the clone alone.
SaveNew(photo) ==
    /\ ~crashed
    /\ IF FirstWithId(photo.ID) /= NilAddr
       THEN UNCHANGED <<heap, images>>
       ELSE /\ Len(images) < MaxRows
            /\ heap' = Append(heap, cloneImage(<<ImageOf(photo)>>, 1)[2])
            /\ images' = Append(images, Len(heap) + 1)
    /\ last' = [NoCall EXCEPT !.op = "Save",
                              !.found = (FirstWithId(photo.ID) /= NilAddr)]
    /\ UNCHANGED <<held, db, tableExists, votes, crashed, calls>>

\* Find with the return placed outside the comparison of ids
FindFirstEntry(id) ==
    /\ ~crashed
    /\ last' = [NoCall EXCEPT !.op = "Find",
                              !.img = IF images = <<>> THEN NilAddr
                                      ELSE images[1],
                              !.found = (images /= <<>>)]
    /\ UNCHANGED <<heap, images, held, db, tableExists, votes, crashed, calls>>

Find(id) ==
    /\ ~crashed
    /\ last' = [NoCall EXCEPT !.op = "Find",
                              !.img = FirstWithId(id),
                              !.found = (FirstWithId(id) /= NilAddr)]
    /\ UNCHANGED <<heap, images, held, db, tableExists, votes, crashed, calls>>

\* the passed image after its counter moved
Voted(im, upOrDown) ==
    IF upOrDown THEN [im EXCEPT !.UpVotes = im.UpVotes + 1]
    ELSE [im EXCEPT !.DownVotes = im.DownVotes - 1]

\* the loop of Update with the down-votes left out
SynchronizeUpVotes(h, a) ==
    [b \in 1..Len(h) |->
        IF b \in Entries /\ h[b].ID = h[a].ID
        THEN [h[b] EXCEPT !.UpVotes = h[a].UpVotes]
        ELSE h[b]]

\* the loop of Update with the comparison of ids left out
SynchronizeEveryEntry(h, a) ==
    [b \in 1..Len(h) |->
        IF b \in Entries
        THEN [h[b] EXCEPT !.UpVotes = h[a].UpVotes,
                          !.DownVotes = h[a].DownVotes]
        ELSE h[b]]

\* the loop of Update over m.images, run on heap h for the passed image a
Synchronize(h, a) ==
    [b \in 1..Len(h) |->
        IF b \in Entries /\ h[b].ID = h[a].ID
        THEN [h[b] EXCEPT !.UpVotes = h[a].UpVotes,
                          !.DownVotes = h[a].DownVotes]
        ELSE h[b]]

Update(a, upOrDown) ==
    /\ ~crashed
    /\ a \in Allocated
    /\ heap[a].UpVotes - heap[a].DownVotes < MaxVotes
    /\ LET h1 == [heap EXCEPT ![a] = Voted(heap[a], upOrDown)]
       IN /\ heap' = Synchronize(h1, a)
          /\ last' = [NoCall EXCEPT !.op = "Update",
                                    !.up = h1[a].UpVotes,
                                    !.down = h1[a].DownVotes]
    /\ UNCHANGED <<images, held, db, tableExists, votes, crashed, calls>>

All ==
    /\ ~crashed
    /\ last' = [NoCall EXCEPT !.op = "All", !.list = images]
    /\ UNCHANGED <<heap, images, held, db, tableExists, votes, crashed, calls>>

\* The caller writes a field of an Image it built itself and still holds
\* (the fields of Image are exported).
SetField(a, field, value) ==
    /\ ~crashed
    /\ a \in held
    /\ heap[a][field] /= value
    /\ field = "UpVotes" => value - heap[a].DownVotes <= MaxVotes
    /\ heap' = [heap EXCEPT ![a][field] = value]
    /\ last' = [NoCall EXCEPT !.op = "SetField"]
    /\ UNCHANGED <<images, held, db, tableExists, votes, crashed, calls>>

\* The caller reuses an Image it built for the next photo of the response:
\* *a = *m.NewImage(photo).
Reuse(a, photo) ==
    /\ ~crashed
    /\ a \in held
    /\ heap[a] /= ImageOf(photo)
    /\ heap' = [heap EXCEPT ![a] = ImageOf(photo)]
    /\ last' = [NoCall EXCEPT !.op = "NewImage"]
    /\ UNCHANGED <<images, held, db, tableExists, votes, crashed, calls>>

\* ------------------------------------------------------------------- store
\* A stored column value after sqlite's type affinity: the column puppy_id
\* is declared integer, so a text that is a decimal number is stored as that
\* integer and any other text is stored as text.
IntegerAffinity(s) ==
    IF IsDecimal(s) THEN [t |-> "int", i |-> DecimalValue(s), s |-> <<>>]
    ELSE [t |-> "text", i |-> 0, s |-> s]

\* InitDB: removes the database file when asked, and opens it
InitDB(removeDb) ==
    /\ ~crashed
    /\ db' = "open"
    /\ IF removeDb
       THEN tableExists' = FALSE /\ votes' = <<>>
       ELSE UNCHANGED <<tableExists, votes>>
    /\ last' = [NoCall EXCEPT !.op = "InitDB"]
    /\ UNCHANGED <<heap, images, held, crashed, calls>>

\* CreateTables: "create table votes (...); delete from votes;" in one Exec.
\* Exec stops at the first statement that fails, and the error is only
\* logged: on an existing table nothing is deleted.
CreateTables ==
    /\ ~crashed
    /\ IF db = "nil"
       THEN crashed' = TRUE /\ UNCHANGED <<tableExists, votes>>
       ELSE /\ IF tableExists
               THEN UNCHANGED <<tableExists, votes>>
               ELSE tableExists' = TRUE /\ votes' = <<>>
            /\ UNCHANGED crashed
    /\ last' = [NoCall EXCEPT !.op = "CreateTables"]
    /\ UNCHANGED <<heap, images, held, db, calls>>

\* One stmt.Exec of the prepared insert on the transaction's view of the
\* table: a row with a new rowid, or no table (ok = FALSE) when puppy_id
\* violates the unique constraint.
ExecInsert(tx, im) ==
    IF ~tx.ok \/ \E r \in 1..Len(tx.rows) :
                    tx.rows[r].puppy_id = IntegerAffinity(im.ID)
    THEN [ok |-> FALSE, rows |-> tx.rows]
    ELSE [ok |-> TRUE,
          rows |-> Append(tx.rows, [id |-> Len(tx.rows) + 1,
                                    puppy_id |-> IntegerAffinity(im.ID),
                                    up_votes |-> im.UpVotes,
                                    down_votes |-> im.DownVotes])]

\* the loop of InsertPuppies inside the transaction, up to the first failure
RECURSIVE ExecAll(_, _)
ExecAll(tx, ims) ==
    IF ims = <<>> \/ ~tx.ok THEN tx
    ELSE ExecAll(ExecInsert(tx, Head(ims)), Tail(ims))

\* the rows of a statement-by-statement insert outside any transaction
CommittedRowByRow(before, tx) == tx.rows

\* What the database file holds once InsertPuppies is over: the rows of the
\* transaction after tx.Commit(), and the rows as they were when log.Fatal
\* ended the process before the commit.
Committed(before, tx) == IF tx.ok THEN tx.rows ELSE before

\* the argument lists of the modelled callers: m.All(), or a list the
\* caller builds from the images it holds
RECURSIVE SeqsUpTo(_, _)
SeqsUpTo(S, n) ==
    IF n = 0 THEN { <<>> }
    ELSE SeqsUpTo(S, n - 1)
         \cup { Append(q, x) : q \in { p \in SeqsUpTo(S, n - 1) :
                                           Len(p) = n - 1 }, x \in S }

ImageLists == SeqsUpTo(Allocated, MaxRows) \cup { images }

InsertPuppies(list) ==
    /\ ~crashed
    /\ Len(votes) + Len(list) <= MaxRows
    /\ last' = [NoCall EXCEPT !.op = "InsertPuppies", !.n = Len(list)]
    /\ IF db = "nil" \/ ~tableExists
       THEN crashed' = TRUE /\ UNCHANGED votes
       ELSE LET tx == ExecAll([ok |-> TRUE, rows |-> votes],
                              [i \in 1..Len(list) |-> heap[list[i]]])
            IN /\ votes' = Committed(votes, tx)
               /\ crashed' = ~tx.ok
    /\ UNCHANGED <<heap, images, held, db, tableExists, calls>>

\* the placeholders as "?" followed by n - 1 times ",?"
PlaceholdersOneOrMore(n) ==
    <<"?">> \o Repeat(<<",", "?">>, IF n > 0 THEN n - 1 ELSE 0)

\* the placeholders of the query: strings.Join(strings.Split(
\* strings.Repeat("?", n), ""), ",")
Placeholders(n) == Join(SplitChars(Repeat(<<"?">>, n)), <<",">>)

\* the query text of FindOldPuppies for n ids
QueryText(n) == <<"select * from votes where puppy_id in (">>
                \o Placeholders(n) \o <<")">>

\* sqlite parses the list of an IN: placeholders separated by commas; unlike
\* standard SQL it also takes the empty list, which matches no row
InListParses(l) ==
    \/ l = <<>>
    \/ /\ Len(l) % 2 = 1
       /\ \A i \in 1..Len(l) : l[i] = (IF i % 2 = 1 THEN "?" ELSE ",")

\* db.Prepare succeeds: the table is there and the text parses
Prepares(q) == tableExists /\ InListParses(SubSeq(q, 2, Len(q) - 1))

\* the number of parameters the prepared statement takes
NumInput(q) == Cardinality({ i \in 1..Len(q) : q[i] = "?" })

\* rows.Scan into a DBVote, whose four fields are int: the columns are
\* converted in order, Scan returns at the first that does not convert (its
\* error is dropped) and the fields after it keep their zero value.
Scan(row) ==
    IF row.puppy_id.t = "int"
    THEN [id |-> row.id, puppy_id |-> row.puppy_id.i,
          up_votes |-> row.up_votes, down_votes |-> row.down_votes]
    ELSE [id |-> row.id, puppy_id |-> 0, up_votes |-> 0, down_votes |-> 0]

\* the rows "puppy_id in (...)" selects: the bound text is compared under
\* the column's affinity
Selected(ids) ==
    { r \in 1..Len(votes) :
        \E k \in 1..Len(ids) : votes[r].puppy_id = IntegerAffinity(ids[k]) }

\* the orders a set of rows may come back in (the query has no ORDER BY)
Orders(S) ==
    { q \in [1..Cardinality(S) -> S] :
        \A i, j \in 1..Cardinality(S) : q[i] = q[j] => i = j }

\* the ids of the registry's entries, in order
RegistryIdList == [i \in 1..Len(images) |-> heap[images[i]].ID]

IdLists == SeqsUpTo(PhotoIDs, MaxRows) \cup { RegistryIdList }

FindOldPuppies(ids) ==
    /\ ~crashed
    /\ IF \/ db = "nil"
          \/ ~Prepares(QueryText(Len(ids)))
          \/ NumInput(QueryText(Len(ids))) /= Len(ids)
       THEN /\ crashed' = TRUE
            /\ last' = [NoCall EXCEPT !.op = "FindOldPuppies",
                                      !.n = Len(ids)]
       ELSE /\ UNCHANGED crashed
            /\ \E order \in Orders(Selected(ids)) :
                 last' = [NoCall EXCEPT
                            !.op = "FindOldPuppies", !.n = Len(ids),
                            !.rows = [i \in 1..Len(order) |->
                                         Scan(votes[order[i]])]]
    /\ UNCHANGED <<heap, images, held, db, tableExists, votes, calls>>

\* ------------------------------------------------------------- concurrency
\* Update as the goroutines of the vote handler run it, with no lock around
\* it: the increment of the passed image's counter is a load and a store,
\* and another goroutine may run between any two steps.

\* a goroutine enters Update with an image Find gave it
UpdateCall(g, a, upOrDown) ==
    /\ ~crashed
    /\ calls[g].pc = "idle"
    /\ a \in Entries
    /\ calls' = [calls EXCEPT ![g] = [pc |-> "load", image |-> a,
                                      upOrDown |-> upOrDown, reg |-> 0]]
    /\ UNCHANGED <<heap, images, held, db, tableExists, votes, crashed, last>>

\* image.UpVotes++ / image.DownVotes--: the counter is read
UpdateLoad(g) ==
    /\ ~crashed
    /\ calls[g].pc = "load"
    /\ calls' = [calls EXCEPT
                   ![g].pc = "store",
                   ![g].reg = IF calls[g].upOrDown
                              THEN heap[calls[g].image].UpVotes
                              ELSE heap[calls[g].image].DownVotes]
    /\ UNCHANGED <<heap, images, held, db, tableExists, votes, crashed, last>>

\* image.UpVotes++ / image.DownVotes--: the value read, moved by one, is
\* written back
UpdateStore(g) ==
    /\ ~crashed
    /\ calls[g].pc = "store"
    /\ heap' = [heap EXCEPT ![calls[g].image] =
                  IF calls[g].upOrDown
                  THEN [@ EXCEPT !.UpVotes = calls[g].reg + 1]
                  ELSE [@ EXCEPT !.DownVotes = calls[g].reg - 1]]
    /\ calls' = [calls EXCEPT ![g].pc = "sync"]
    /\ UNCHANGED <<images, held, db, tableExists, votes, crashed, last>>

\* the loop over m.images
UpdateSync(g) ==
    /\ ~crashed
    /\ calls[g].pc = "sync"
    /\ heap' = Synchronize(heap, calls[g].image)
    /\ calls' = [calls EXCEPT ![g].pc = "return"]
    /\ UNCHANGED <<images, held, db, tableExists, votes, crashed, last>>

\* return image.UpVotes, image.DownVotes
UpdateReturn(g) ==
    /\ ~crashed
    /\ calls[g].pc = "return"
    /\ last' = [NoCall EXCEPT !.op = "Update",
                              !.up = heap[calls[g].image].UpVotes,
                              !.down = heap[calls[g].image].DownVotes]
    /\ calls' = [calls EXCEPT ![g].pc = "done"]
    /\ UNCHANGED <<heap, images, held, db, tableExists, votes, crashed>>

\* ---------------------------------------------------------------- response
\* strconv.Atoi on a short text: an optional sign and one or more decimal
\* digits convert; anything else gives the value 0 and an error.
Atoi(s) ==
    LET digits == IF s /= <<>> /\ s[1] \in { "+", "-" } THEN Tail(s) ELSE s
    IN IF IsDecimal(digits)
       THEN [v |-> IF s[1] = "-" THEN 0 - DecimalValue(digits)
                   ELSE DecimalValue(digits),
             err |-> FALSE]
       ELSE [v |-> 0, err |-> TRUE]

\* the texts a count of the search response may carry
FieldTexts == { <<"1", "2">>, <<"-", "3">>, <<"x">> }

\* the search responses of the modelled runs (GetPuppiesResponse reads the
\* four counts only)
SearchResponses ==
    [Page : FieldTexts, Pages : FieldTexts, PerPage : FieldTexts,
     Total : FieldTexts]

\* GetPuppiesResponse: err is assigned by each of the four conversions and
\* read once, after the last. resp is <<>> for the nil it returns, or holds
\* the PuppiesResponse.
GetPuppiesResponse(searchResponse) ==
    /\ ~crashed
    /\ LET page == Atoi(searchResponse.Page)
           pages == Atoi(searchResponse.Pages)
           perPage == Atoi(searchResponse.PerPage)
           total == Atoi(searchResponse.Total)
       IN last' = [NoCall EXCEPT
                     !.op = "GetPuppiesResponse",
                     !.resp = IF total.err
                              THEN <<>>
                              ELSE << [Page |-> page.v, Pages |-> pages.v,
                                       PerPage |-> perPage.v,
                                       Total |-> total.v,
                                       Images |-> images] >>]
    /\ UNCHANGED <<heap, images, held, db, tableExists, votes, crashed, calls>>

\* a call of photo.URL(size): url is the string returned and photo the
\* receiver as the call leaves it (URL assigns to no field of p)
PhotoURL(photo, size) ==
    /\ ~crashed
    /\ last' = [NoCall EXCEPT !.op = "URL", !.url = URL(photo, size),
                              !.photo = <<photo>>]
    /\ UNCHANGED <<heap, images, held, db, tableExists, votes, crashed, calls>>

\* The calls on the registry: the images of a search response are built and
\* saved, looked up, voted on and listed, and the caller may write to the
\* images it built.
Next ==
    \/ \E photo \in RegistryPhotos : NewImage(photo)
    \/ \E a \in Allocated : Save(a)
    \/ \E id \in RegistryPhotoIDs : Find(id)
    \/ \E a \in Allocated, upOrDown \in BOOLEAN : Update(a, upOrDown)
    \/ All
    \/ \E a \in Allocated : \E photo \in RegistryPhotos : Reuse(a, photo)
    \/ \E a \in Allocated : \E n \in 0..MaxVotes : SetField(a, "UpVotes", n)

Spec == Init /\ [][Next]_vars

\* The calls that reach the store: the photos of a response are saved, the
\* saved images voted on, looked up and listed, the database opened, the
\* table created, images flushed and the rows of some ids read back.
NextStore ==
    \/ \E photo \in Photos : SaveNew(photo)
    \/ \E a \in Allocated, upOrDown \in BOOLEAN : Update(a, upOrDown)
    \/ \E removeDb \in BOOLEAN : InitDB(removeDb)
    \/ CreateTables
    \/ \E list \in ImageLists : InsertPuppies(list)
    \/ \E ids \in IdLists : FindOldPuppies(ids)
    \/ \E id \in PhotoIDs : Find(id)
    \/ All

SpecStore == Init /\ [][NextStore]_vars

\* The handling of a search response: its photos are saved, the summary of
\* the response is built and the URLs of its photos are asked for.
NextResponse ==
    \/ \E photo \in Photos : SaveNew(photo)
    \/ \E searchResponse \in SearchResponses :
          GetPuppiesResponse(searchResponse)
    \/ \E photo \in Photos, size \in Sizes : PhotoURL(photo, size)

SpecResponse == Init /\ [][NextResponse]_vars

\* Votes served at the same time: photos are saved, and each goroutine
\* runs one Update on an entry of the registry, step by step.
NextConcurrent ==
    \/ \E photo \in RegistryPhotos : SaveNew(photo)
    \/ \E g \in Goroutines, a \in Allocated, upOrDown \in BOOLEAN :
          UpdateCall(g, a, upOrDown)
    \/ \E g \in Goroutines : UpdateLoad(g)
    \/ \E g \in Goroutines : UpdateStore(g)
    \/ \E g \in Goroutines : UpdateSync(g)
    \/ \E g \in Goroutines : UpdateReturn(g)

SpecConcurrent == Init /\ [][NextConcurrent]_vars

\* ------------------------------------------------------------------ claims
\* no two entries of the registry carry the same id
NoTwoEntriesShareAnId ==
    \A i, j \in 1..Len(images) :
        heap[images[i]].ID = heap[images[j]].ID => i = j

\* C1: after any calls no two registry entries share an id, and a Save of
\* an image whose id is already stored leaves the registry as it was: the
\* same entries in the same order, with the counts they had.
C1_IdempotentInsert ==
    [][/\ NoTwoEntriesShareAnId'
       /\ \A a \in Allocated :
            (Save(a) /\ heap[a].ID \in RegistryIds)
                => (images' = images /\ Registry' = Registry)]_vars

\* C1 witness: a Save of a held image whose id was stored has returned,
\* and the stored entry's up-votes are not those of the image passed.
C1_Witness ==
    /\ last.op = "Save" /\ last.found
    /\ \E i \in 1..Len(images) :
          /\ heap[images[i]].ID = heap[last.img].ID
          /\ heap[images[i]].UpVotes /= heap[last.img].UpVotes

\* C2: an Update on an image whose id is stored moves the stored entry's
\* counter by exactly one, up-votes by +1 for an up-vote and down-votes by
\* -1 for a down-vote, whichever instance with that id is passed.
C2_VoteMonotonicity ==
    [][\A a \in Allocated, upOrDown \in BOOLEAN :
         (Update(a, upOrDown) /\ heap[a].ID \in RegistryIds)
            => LET r == FirstWithId(heap[a].ID)
               IN IF upOrDown
                  THEN heap'[r].UpVotes = heap[r].UpVotes + 1
                  ELSE heap'[r].DownVotes = heap[r].DownVotes - 1]_vars

\* C3: the pair Update returns is the tally of every registry entry with
\* the passed image's id right after the call, the entry Find gives for
\* that id included.
C3_UpdateReturnsRegistryTally ==
    [][\A a \in Allocated, upOrDown \in BOOLEAN :
         Update(a, upOrDown)
            => /\ \A i \in 1..Len(images') :
                    heap'[images'[i]].ID = heap'[a].ID
                       => /\ heap'[images'[i]].UpVotes = last'.up
                          /\ heap'[images'[i]].DownVotes = last'.down
               /\ FirstWithId(heap[a].ID)' /= NilAddr
                    => /\ heap'[FirstWithId(heap[a].ID)'].UpVotes = last'.up
                       /\ heap'[FirstWithId(heap[a].ID)'].DownVotes
                             = last'.down]_vars

\* C3 witness: Update has returned (1, 0) and an entry carries that tally.
C3_Witness ==
    /\ last.op = "Update" /\ last.up = 1 /\ last.down = 0
    /\ \E i \in 1..Len(images) :
          heap[images[i]].UpVotes = 1 /\ heap[images[i]].DownVotes = 0

\* C4: every registry entry has up-votes >= 0 and down-votes >= 0.
C4_VotesNonNegative ==
    \A i \in 1..Len(images) :
        heap[images[i]].UpVotes >= 0 /\ heap[images[i]].DownVotes >= 0

\* C5: a write by the caller to an image it holds, made after Save or not,
\* changes no registry entry.
C5_SaveStoresACopy ==
    [][/\ \A a \in Allocated, n \in 0..MaxVotes :
            SetField(a, "UpVotes", n) => Registry' = Registry
       /\ \A a \in Allocated, photo \in Photos :
            Reuse(a, photo) => Registry' = Registry]_vars

\* C5 witness: the caller has written to an image it saved before, so the
\* entry with its id no longer carries the image's up-votes.
C5_Witness ==
    /\ last.op = "SetField"
    /\ \E a \in held, i \in 1..Len(images) :
          /\ heap[a].ID = heap[images[i]].ID
          /\ heap[a].UpVotes /= heap[images[i]].UpVotes

\* C6: Find reports found exactly when an entry has the id, then gives the
\* address of the stored entry itself; otherwise it gives nil and false and
\* the process goes on; Find changes neither the registry nor any image.
C6_Find ==
    [][\A id \in PhotoIDs :
         Find(id)
            => /\ last'.found <=> (id \in RegistryIds)
               /\ last'.found => (last'.img \in Entries
                                   /\ heap[last'.img].ID = id)
               /\ ~last'.found => (last'.img = NilAddr /\ ~crashed')
               /\ UNCHANGED <<heap, images>>]_vars

\* C6 witness: Find has returned the second entry of the registry.
C6_Witness ==
    /\ last.op = "Find" /\ last.found
    /\ Len(images) >= 2 /\ last.img = images[2]

\* the row InsertPuppies writes for an image
RowHolds(row, im) ==
    /\ row.puppy_id = IntegerAffinity(im.ID)
    /\ row.up_votes = im.UpVotes
    /\ row.down_votes = im.DownVotes

\* the id of an image has a row in the table
HasRow(im) ==
    \E r \in 1..Len(votes) : votes[r].puppy_id = IntegerAffinity(im.ID)

\* C7: InsertPuppies either commits one row per image of the list, after
\* the rows the table held, or commits nothing; it commits nothing and the
\* call fails when an id of the list already has a row or comes twice in
\* the list.
C7_BulkInsertAtomic ==
    [][\A list \in ImageLists :
         InsertPuppies(list)
            => /\ IF crashed' THEN votes' = votes
                  ELSE /\ Len(votes') = Len(votes) + Len(list)
                       /\ SubSeq(votes', 1, Len(votes)) = votes
                       /\ \A i \in 1..Len(list) :
                            RowHolds(votes'[Len(votes) + i], heap[list[i]])
               /\ (\E i \in 1..Len(list) : HasRow(heap[list[i]]))
                    => crashed'
               /\ (\E i, j \in 1..Len(list) :
                      i /= j /\ heap[list[i]].ID = heap[list[j]].ID)
                    => crashed']_vars

\* C7 witness: InsertPuppies of two images has failed on an open database
\* whose table held no row, so on its second image, and the table still
\* holds no row.
C7_Witness ==
    /\ last.op = "InsertPuppies" /\ last.n = 2
    /\ crashed /\ db = "open" /\ tableExists /\ votes = <<>>

\* the table holds what InsertPuppies(m.All()) commits to an empty table,
\* and the registry's counts are still those of the flush
FlushedRegistry ==
    /\ db = "open" /\ tableExists /\ images /= <<>>
    /\ LET tx == ExecAll([ok |-> TRUE, rows |-> <<>>], Registry)
       IN tx.ok /\ votes = tx.rows

\* C8: after a flush of the registry's k images to an empty table,
\* FindOldPuppies with the k ids returns k rows, and each image has a row
\* with its id (as a number), its up-votes and its down-votes.
C8_RoundTrip ==
    [][(FlushedRegistry /\ FindOldPuppies(RegistryIdList))
          => /\ ~crashed'
             /\ Len(last'.rows) = Len(images)
             /\ \A i \in 1..Len(images) :
                  \E j \in 1..Len(last'.rows) :
                     /\ IsDecimal(heap[images[i]].ID)
                     /\ last'.rows[j].puppy_id
                           = DecimalValue(heap[images[i]].ID)
                     /\ last'.rows[j].up_votes = heap[images[i]].UpVotes
                     /\ last'.rows[j].down_votes
                           = heap[images[i]].DownVotes]_vars

\* C9: InsertPuppies with images whose ids already have a row succeeds, and
\* afterwards each such id has exactly one row, with the image's counts.
C9_FlushUpdatesRow ==
    [][\A list \in ImageLists :
         (/\ InsertPuppies(list)
          /\ db = "open" /\ tableExists
          /\ \E i \in 1..Len(list) : HasRow(heap[list[i]]))
            => /\ ~crashed'
               /\ \A i \in 1..Len(list) :
                    HasRow(heap[list[i]])
                       => /\ \E r \in 1..Len(votes') :
                                RowHolds(votes'[r], heap[list[i]])
                          /\ Cardinality(
                               { r \in 1..Len(votes') :
                                   votes'[r].puppy_id
                                      = IntegerAffinity(heap[list[i]].ID) })
                                = 1]_vars

\* C10: FindOldPuppies with no id returns no row whatever the table holds;
\* it fails only when there is no database handle or no table, never on
\* the text of its query.
C10_EmptyIdSet ==
    [][FindOldPuppies(<<>>)
          => /\ crashed' => (db = "nil" \/ ~tableExists)
             /\ ~crashed' => last'.rows = <<>>]_vars

\* C10 witness: FindOldPuppies with no id has returned, without a row, from
\* a table that holds rows.
C10_Witness ==
    /\ last.op = "FindOldPuppies" /\ last.n = 0 /\ ~crashed
    /\ last.rows = <<>> /\ votes /= <<>>

\* C11: after a flush of the registry to an empty table, FindOldPuppies(ids)
\* returns exactly the rows of the images whose id is one of ids: each such
\* row once, no row of an image whose id is not in ids, and nothing for an
\* id without a row.
C11_LoadByIds ==
    [][\A ids \in IdLists :
         (FlushedRegistry /\ FindOldPuppies(ids))
            => /\ ~crashed'
               /\ { last'.rows[j].id : j \in 1..Len(last'.rows) }
                     = { r \in 1..Len(votes) :
                           \E k \in 1..Len(ids) :
                              ids[k] = heap[images[r]].ID }
               /\ \A i, j \in 1..Len(last'.rows) :
                     last'.rows[i].id = last'.rows[j].id => i = j]_vars

\* C12: GetPuppiesResponse returns nil whenever one of page, pages,
\* per-page and total does not convert to an integer, and when all four
\* convert it returns their values with the registry's image list.
C12_TranslationFailsAsAWhole ==
    [][\A searchResponse \in SearchResponses :
         GetPuppiesResponse(searchResponse)
            => IF \/ Atoi(searchResponse.Page).err
                  \/ Atoi(searchResponse.Pages).err
                  \/ Atoi(searchResponse.PerPage).err
                  \/ Atoi(searchResponse.Total).err
               THEN last'.resp = <<>>
               ELSE last'.resp
                       = << [Page |-> Atoi(searchResponse.Page).v,
                             Pages |-> Atoi(searchResponse.Pages).v,
                             PerPage |-> Atoi(searchResponse.PerPage).v,
                             Total |-> Atoi(searchResponse.Total).v,
                             Images |-> images] >>]_vars

\* C13: All returns the entries of the registry in the order of the first
\* Save of each id, each stored id once: a step either leaves the ids of
\* the registry and their order as they were or is the Save of an id not
\* yet stored, which puts that id last; Update and the Save of a stored id
\* never reorder.
C13_AllInInsertionOrder ==
    [][/\ NoTwoEntriesShareAnId'
       /\ \/ RegistryIdList' = RegistryIdList
          \/ \E a \in Allocated :
                /\ Save(a)
                /\ heap[a].ID \notin RegistryIds
                /\ RegistryIdList' = Append(RegistryIdList, heap[a].ID)
       /\ All => [i \in 1..Len(last'.list) |-> heap[last'.list[i]].ID]
                    = RegistryIdList
       /\ \A a \in Allocated, upOrDown \in BOOLEAN :
             Update(a, upOrDown) => RegistryIdList' = RegistryIdList
       /\ \A a \in Allocated :
             (Save(a) /\ heap[a].ID \in RegistryIds)
                => RegistryIdList' = RegistryIdList]_vars

\* C13 witness: All has returned two entries, the id "2" saved first and
\* then the id "1", after a vote on the first.
C13_Witness ==
    /\ last.op = "All" /\ Len(last.list) = 2
    /\ heap[last.list[1]].ID = <<"2">> /\ heap[last.list[2]].ID = <<"1">>
    /\ heap[last.list[1]].UpVotes = 1

\* C14: after CreateTables on an open database the table votes exists and
\* holds no row, whether or not the table existed, with rows, before.
C14_CreateSchemaClears ==
    [][(CreateTables /\ db = "open")
          => (~crashed' /\ tableExists' /\ votes' = <<>>)]_vars

\* the URL of a photo up to and including its secret
Stem(p) ==
    <<"http://farm">> \o p.Farm \o <<".static.flickr.com/">> \o p.Server
    \o <<"/">> \o p.ID \o <<"_">> \o p.Secret

\* C15: URL with the size "-" gives
\* http://farm<farm>.static.flickr.com/<server>/<id>_<secret>.jpg, URL with
\* any other size gives the same with "_<size>" between the secret and
\* ".jpg", and the photo is left as it was.
C15_URL ==
    [][\A photo \in Photos, size \in Sizes :
         PhotoURL(photo, size)
            => /\ last'.url = IF size = <<"-">>
                              THEN Stem(photo) \o <<".jpg">>
                              ELSE Stem(photo) \o <<"_">> \o size
                                   \o <<".jpg">>
               /\ last'.photo = <<photo>>]_vars

\* C15 witness: URL has returned the address without a size segment for
\* the photo with the id "01".
C15_Witness ==
    /\ last.op = "URL"
    /\ last.photo = <<PhotoOf(<<"0", "1">>)>>
    /\ last.url = Stem(PhotoOf(<<"0", "1">>)) \o <<".jpg">>

\* the votes of one kind the goroutines have cast on an id, their calls of
\* Update having returned
Cast(id, upOrDown) ==
    Cardinality({ g \in Goroutines :
                    /\ calls[g].pc = "done"
                    /\ heap[calls[g].image].ID = id
                    /\ calls[g].upOrDown = upOrDown })

\* C16: once the Update calls that ran at the same time have all returned,
\* the tally of every registry entry counts each vote cast on its id: no
\* vote is lost, in whatever order the steps of the calls were taken.
C16_NoVoteLost ==
    (\A g \in Goroutines : calls[g].pc \in { "idle", "done" })
       => \A i \in 1..Len(images) :
             /\ heap[images[i]].UpVotes
                   = Cast(heap[images[i]].ID, TRUE)
             /\ 0 - heap[images[i]].DownVotes
                   = Cast(heap[images[i]].ID, FALSE)

\* C17: no call removes an entry of the registry: Find reports found for
\* exactly the ids stored, an id stored before a step is stored after it,
\* and the number of entries never decreases, over Save, Update, Find, All,
\* InsertPuppies and FindOldPuppies.
C17_EntriesNeverRemoved ==
    [][/\ \A id \in PhotoIDs :
             Find(id) => (last'.found <=> id \in RegistryIds')
       /\ RegistryIds \subseteq RegistryIds'
       /\ Len(images') >= Len(images)]_vars

\* C17 witness: Find has reported found for the first of two entries, which
\* a vote had moved, with rows flushed to the table.
C17_Witness ==
    /\ last.op = "Find" /\ last.found
    /\ Len(images) = 2 /\ last.img = images[1]
    /\ heap[last.img].UpVotes = 1
    /\ votes /= <<>>

\* C18: Update changes nothing of the registry but the up-votes and
\* down-votes of the entries with the passed image's id: the entries, their
\* number and order, the id, title and URLs of each and the tallies of the
\* entries with another id stay, and with no entry of that id the registry
\* stays as a whole while the passed image's counter moves.
C18_UpdateFrame ==
    [][\A a \in Allocated, upOrDown \in BOOLEAN :
         Update(a, upOrDown)
            => /\ images' = images
               /\ \A i \in 1..Len(images) :
                     /\ heap'[images[i]].ID = heap[images[i]].ID
                     /\ heap'[images[i]].Title = heap[images[i]].Title
                     /\ heap'[images[i]].Thumbnail = heap[images[i]].Thumbnail
                     /\ heap'[images[i]].Large = heap[images[i]].Large
                     /\ heap[images[i]].ID /= heap[a].ID
                          => heap'[images[i]] = heap[images[i]]
               /\ heap[a].ID \notin RegistryIds
                    => /\ Registry' = Registry
                       /\ heap'[a] /= heap[a]]_vars

\* C18 witness: Update has returned (1, 0) with two entries stored, and
\* the second entry's tally is not the one returned.
C18_Witness ==
    /\ last.op = "Update" /\ last.up = 1 /\ last.down = 0
    /\ Len(images) = 2
    /\ heap[images[1]].UpVotes = 1
    /\ heap[images[2]].UpVotes = 0 /\ heap[images[2]].DownVotes = -1

====
